---- MODULE Spec2Model ----
(***************************************************************************)
(* State-machine model of server.js: the bulk conversion endpoint          *)
(* POST /api/convert and the helpers it drives                             *)
(*   cloudConvertFallbackConvert      (remote job: create/upload/poll/dl)  *)
(*   convertImageBufferWithFallback   (local codec, remote fallback)       *)
(*   pdfToImagesBuffersWithFallback   (PDF rasterisation)                  *)
(*   imagesToPdf                      (page reassembly)                    *)
(* Every call to a collaborator (file system, sharp, pdf-lib, axios) may   *)
(* succeed or fail; its outcome is drawn nondeterministically.             *)
(***************************************************************************)
EXTENDS Integers, Sequences, FiniteSets, TLC

\* ---------------------------------------------------------------- bounds
MaxFiles == 2
MaxPages == 2
MaxExport == 2
MaxAdverse == 1

\* ------------------------------------------------------ program constants
\* Mutation of maxPolls: one more attempt.
maxPollsRaised == 90 + 1

maxPolls == 90

\* ------------------------------------------------------------ small helpers
Range(s) == {s[i] : i \in 1..Len(s)}

\* String.prototype.toLowerCase on the extensions and formats that occur.
ToLowerCase(s) ==
  CASE s = ".HEIC" -> ".heic"
    [] s = ".PDF" -> ".pdf"
    [] s = "PNG" -> "png"
    [] OTHER -> s

ImageMimes == {"image/png", "image/jpeg", "image/heic", "image/heif", "image/svg+xml"}

isImageMime(m) == m \in ImageMimes \/ m = "image/svg+xml"

isHeicByName(name, mimetype) ==
  \/ ToLowerCase(name.ext) \in {".heic", ".heif"}
  \/ mimetype \in {"image/heic", "image/heif", "application/octet-stream"}

isPdfMime(m, name) == m = "application/pdf" \/ ToLowerCase(name.ext) = ".pdf"

\* mime.lookup(path): content type from a path's extension, false if unknown.
MimeLookup(ext) ==
  CASE ext = ".png" -> "image/png"
    [] ext \in {".jpg", ".jpeg"} -> "image/jpeg"
    [] ext = ".heic" -> "image/heic"
    [] ext = ".pdf" -> "application/pdf"
    [] ext = ".txt" -> "text/plain"
    [] OTHER -> "application/octet-stream"

\* mime.extension(type): the first extension registered for a content type.
MimeExtension(m) ==
  CASE m = "image/png" -> "png"
    [] m = "image/jpeg" -> "jpeg"
    [] m = "image/heic" -> "heic"
    [] m = "application/pdf" -> "pdf"
    [] m = "text/plain" -> "txt"
    [] m = "application/octet-stream" -> "bin"
    [] OTHER -> ""

\* ------------------------------------------------------------- the inputs
\* An uploaded file: originalname split as path.parse does, the declared
\* mimetype, and (for a PDF) the number of pages the document really has.
File(base, ext, m, pages) == [base |-> base, ext |-> ext, mime |-> m, pages |-> pages]

FileKinds ==
  {File("a", ".png", "image/png", 0),
   File("a", ".jpg", "image/jpeg", 0),
   File("b", ".heic", "image/heic", 0),
   File("e", ".heic", "application/octet-stream", 0),
   File("d", ".txt", "text/plain", 0)}
  \cup {File("c", ".pdf", "application/pdf", p) : p \in 1..MaxPages}

FileLists == UNION {[1..n -> FileKinds] : n \in 0..MaxFiles}

TargetFormats == {"pdf", "png", "jpg"}

\* A buffer of bytes, named by where it came from: the input of file src
\* ("in"), a local re-encoding ("local"), a rasterised page pg ("raster"),
\* a file downloaded from the remote service ("remote").
Buf(k, src, pg, fmt) == [k |-> k, src |-> src, pg |-> pg, fmt |-> fmt]
NoBuf == Buf("none", 0, 0, "")

\* A temporary file on disk.
Tmp(kind, id, ext) == [kind |-> kind, id |-> id, ext |-> ext]
NoTmp == Tmp("none", 0, "")

\* -------------------------------------------------------------- the state
VARIABLES
  cfg,    \* process configuration: sharpAvailable, CLOUDCONVERT_API_KEY present
  req,    \* the request: req.files, req.body.targetFormat / zip / compress
  h,      \* the /api/convert handler: position, loop index, outputs, cloudJobIds
  itp,    \* the running imagesToPdf call
  cib,    \* the running convertImageBufferWithFallback call
  p2i,    \* the running pdfToImagesBuffersWithFallback call
  cc,     \* the running cloudConvertFallbackConvert call
  ret,    \* the value returned, or the error thrown, to the caller named ret.to
  disk,   \* the temporary files present in uploads/
  resp,   \* the HTTP response
  ctr,    \* serial numbers: remote job ids, temporary file names
  budget, \* the adverse events the collaborators may still produce
  hist    \* history: what has happened during the request

vars == <<cfg, req, h, itp, cib, p2i, cc, ret, disk, resp, ctr, budget, hist>>

NoName == [base |-> "", ext |-> ""]

NoRet ==
  [to |-> "none", ok |-> TRUE, kind |-> "", info |-> "", bufs |-> <<>>,
   mime |-> "", jobId |-> 0, pages |-> <<>>, paths |-> <<>>]

Throw(to, kind, info) == [NoRet EXCEPT !.to = to, !.ok = FALSE, !.kind = kind, !.info = info]

\* e.message of a thrown error.
Message(r) == r.kind \o ":" \o r.info

IdleH == [pc |-> "start", i |-> 0, outputs |-> <<>>, jobs |-> {}, err |-> ""]

IdleItp == [pc |-> "idle", caller |-> "", bufs |-> <<>>, k |-> 0, pages |-> <<>>]

IdleCib == [pc |-> "idle", caller |-> "", buf |-> NoBuf, fmt |-> "", name |-> NoName, tmpIn |-> NoTmp]

IdleP2i == [pc |-> "idle", buf |-> NoBuf, fmt |-> "", pages |-> 0, tmpIn |-> NoTmp]

IdleCc ==
  [pc |-> "idle", caller |-> "", filePath |-> NoTmp, outFmt |-> "", jobId |-> 0,
   polls |-> 0, status |-> "null", sawTerm |-> "none", slow |-> FALSE, files |-> <<>>, paths |-> <<>>,
   uploads |-> 0]

NoResp ==
  [status |-> 0, kind |-> "none", error |-> "", entries |-> <<>>, mime |-> "",
   note |-> "", jobsHeader |-> {}]

NoHist ==
  [failed |-> {}, rast |-> {}, codec |-> FALSE, net |-> FALSE, tmpw |-> FALSE, jobs |-> {},
   local |-> {}, lfail |-> {}, remote |-> {}]

\* The collaborators (file system, codec, pdf-lib, remote service) misbehave
\* at most budget times during a run: a failure, an error status, a job that
\* is not finished at its first poll, a result that was not converted.
\* Unlimited lifts the limit.
Unlimited == 0 - 1
Can(cost) == budget = Unlimited \/ cost <= budget
Spend(cost) == budget' = IF budget = Unlimited THEN budget ELSE budget - cost
Cost(failed) == IF failed THEN 1 ELSE 0

\* multer has stored every uploaded file in uploads/ before the handler runs.
Uploads(files) == {Tmp("upload", i, files[i].ext) : i \in 1..Len(files)}

Init ==
  /\ cfg \in [sharp : BOOLEAN, key : BOOLEAN]
  /\ req \in [files : FileLists, target : TargetFormats, zip : BOOLEAN, compress : BOOLEAN]
  /\ h = IdleH
  /\ itp = IdleItp
  /\ cib = IdleCib
  /\ p2i = IdleP2i
  /\ cc = IdleCc
  /\ ret = NoRet
  /\ disk = Uploads(req.files)
  /\ resp = NoResp
  /\ ctr = [job |-> 0, tmp |-> 0]
  /\ budget = MaxAdverse
  /\ hist = NoHist

\* ============================================ cloudConvertFallbackConvert
\* Normalize output format (lines 100-103).
NormalizeOutFmt(f) ==
  LET l == ToLowerCase(f)
  IN IF l = "jpeg" THEN "jpg" ELSE IF l = "" THEN "jpg" ELSE l

\* The call itself: the frame a caller sets up.
CallCc(caller, filePath, outputFormat) ==
  [IdleCc EXCEPT !.pc = "create", !.caller = caller, !.filePath = filePath,
                 !.outFmt = NormalizeOutFmt(outputFormat)]

CcThrow(kind, info) ==
  /\ cc' = [cc EXCEPT !.pc = "thrown"]
  /\ ret' = Throw(cc.caller, kind, info)

\* Lines 97-137: the credential check, job creation, the upload details.
CcCreate ==
  /\ cc.pc = "create"
  /\ \E r \in {"ok", "neterr", "nodata", "noform"} :
       IF ~cfg.key
       THEN /\ r = "ok"
            /\ CcThrow("CLOUDCONVERT_API_KEY not configured", "")
            /\ UNCHANGED <<ctr, hist, budget>>
       ELSE /\ Can(Cost(r /= "ok"))
            /\ Spend(Cost(r /= "ok"))
            /\ hist' = [hist EXCEPT !.net = TRUE,
                          !.jobs = IF r \in {"ok", "noform"} THEN @ \cup {ctr.job + 1} ELSE @]
            /\ IF r = "neterr"
               THEN CcThrow("CloudConvert job creation failed", "") /\ UNCHANGED ctr
               ELSE IF r = "nodata"
               THEN CcThrow("CloudConvert: failed to create job", "") /\ UNCHANGED ctr
               ELSE /\ ctr' = [ctr EXCEPT !.job = @ + 1]
                    /\ IF r = "noform"
                       THEN /\ cc' = [cc EXCEPT !.pc = "thrown", !.jobId = ctr.job + 1]
                            /\ ret' = Throw(cc.caller, "CloudConvert: upload details missing", "")
                       ELSE /\ cc' = [cc EXCEPT !.pc = "upload", !.jobId = ctr.job + 1]
                            /\ UNCHANGED ret
  /\ UNCHANGED <<cfg, req, h, itp, cib, p2i, disk, resp>>

\* Mutation of AfterUpload: a failed upload is tried again.
AfterUploadRetry(ok) == IF ok THEN "poll" ELSE "upload"

\* Lines 146-151: where the function goes after the upload request.
AfterUpload(ok) == IF ok THEN "poll" ELSE "thrown"

\* Lines 141-151: the upload; a failure is fatal for the job.
CcUpload ==
  /\ cc.pc = "upload"
  /\ \E ok \in BOOLEAN :
       /\ Can(Cost(~ok))
       /\ Spend(Cost(~ok))
       /\ cc' = [cc EXCEPT !.pc = AfterUpload(ok), !.uploads = @ + 1]
       /\ ret' = IF AfterUpload(ok) = "thrown"
                 THEN Throw(cc.caller, "CloudConvert file upload failed", "")
                 ELSE ret
  /\ UNCHANGED <<cfg, req, h, itp, cib, p2i, disk, resp, ctr, hist>>

\* The messages of the two errors the polling can end with (lines 169, 175).
JobFailedError == "CloudConvert job failed"
JobTimeoutError == "CloudConvert job timeout or did not finish"

\* What one status poll can give: null on a network error, else the status.
PollResults == {"null", "processing", "finished", "failed", "error"}

\* A variant of the test of line 167 that knows one of the two statuses only.
IsFailureStatusFailedOnly(s) == s = "failed"

\* Line 167: the service reports the job as failed.
IsFailureStatus(s) == s = "error" \/ s = "failed"

\* Mutation of Attempt: a poll does not use up an attempt.
AttemptNotCounted(i) == i

\* Line 157: i++, the attempts used once this poll is made.
Attempt(i) == i + 1

\* Lines 157-171: one iteration of the polling loop.
CcPoll ==
  /\ cc.pc = "poll"
  /\ cc.polls < maxPolls
  /\ \E r \in PollResults :
       LET n == Attempt(cc.polls)
           adverse == r \in {"failed", "error"} \/ (r \in {"null", "processing"} /\ ~cc.slow)
           seen == IF r = "finished" THEN "finished"
                   ELSE IF r \in {"failed", "error"} THEN "failed" ELSE cc.sawTerm
           polled == [cc EXCEPT !.polls = n, !.status = r, !.sawTerm = seen,
                                !.slow = @ \/ r \in {"null", "processing"}]
       IN /\ Can(Cost(adverse))
          /\ Spend(Cost(adverse))
          /\ IF r = "null"
             THEN cc' = [polled EXCEPT !.pc = IF n < maxPolls THEN "poll" ELSE "afterPoll"]
                  /\ UNCHANGED ret
             ELSE IF r = "finished"
             THEN cc' = [polled EXCEPT !.pc = "afterPoll"] /\ UNCHANGED ret
             ELSE IF IsFailureStatus(r)
             THEN /\ cc' = [polled EXCEPT !.pc = "thrown"]
                  /\ ret' = Throw(cc.caller, JobFailedError, r)
             ELSE cc' = [polled EXCEPT !.pc = IF n < maxPolls THEN "poll" ELSE "afterPoll"]
                  /\ UNCHANGED ret
  /\ UNCHANGED <<cfg, req, h, itp, cib, p2i, disk, resp, ctr, hist>>

\* What the finished job's export task lists: the extension of each result
\* file's name ("" when the name has none, or the input's own extension when
\* the service did not convert).
ExportLists(inputExt) == UNION {[1..n -> {"", inputExt}] : n \in 0..MaxExport}

\* Mutation of DidNotFinish: the check after the loop lets every job through.
DidNotFinishNever(status) == FALSE

\* Line 173: the job did not finish.
DidNotFinish(status) == status = "null" \/ status /= "finished"

\* Lines 173-186: after the loop, the timeout check and the export task.
CcAfterPoll ==
  /\ cc.pc = "afterPoll"
  /\ IF DidNotFinish(cc.status)
     THEN CcThrow(JobTimeoutError, cc.status) /\ UNCHANGED budget
     ELSE \E fs \in ExportLists(cc.filePath.ext) :
            LET adverse == Len(fs) = 0 \/ cc.filePath.ext \in Range(fs)
            IN /\ Can(Cost(adverse))
               /\ Spend(Cost(adverse))
               /\ IF Len(fs) = 0
                  THEN CcThrow("CloudConvert: no export files found", "")
                  ELSE cc' = [cc EXCEPT !.pc = "download", !.files = fs] /\ UNCHANGED ret
  /\ UNCHANGED <<cfg, req, h, itp, cib, p2i, disk, resp, ctr, hist>>

\* Line 194: the extension of the downloaded file's path.
ExtFromName(ext, outFmt) == IF ext /= "" THEN ext ELSE "." \o outFmt

\* Lines 192-210: the download of one result file. createWriteStream has
\* created tmpOut before the GET is answered.
CcDownload ==
  /\ cc.pc = "download"
  /\ \E r \in {"ok", "geterr", "streamerr"} :
       LET d == Len(cc.paths) + 1
           tmpOut == Tmp("dl", ctr.tmp + 1, ExtFromName(cc.files[d], cc.outFmt))
       IN /\ Can(Cost(r /= "ok"))
          /\ Spend(Cost(r /= "ok"))
          /\ disk' = disk \cup {tmpOut}
          /\ ctr' = [ctr EXCEPT !.tmp = @ + 1]
          /\ hist' = [hist EXCEPT !.tmpw = TRUE]
          /\ IF r = "ok"
             THEN /\ cc' = [cc EXCEPT !.paths = Append(@, tmpOut),
                              !.pc = IF d < Len(cc.files) THEN "download" ELSE "sanity"]
                  /\ UNCHANGED ret
             ELSE CcThrow("CloudConvert download failed", r)
  /\ UNCHANGED <<cfg, req, h, itp, cib, p2i, resp>>

\* Line 215: every downloaded path has the input's extension.
AllSameAsInput(paths, inputExt) ==
  \A i \in 1..Len(paths) : ToLowerCase(paths[i].ext) = ToLowerCase(inputExt)

\* Lines 213-222: the error thrown in the try block at line 218 is caught by
\* the catch at line 220, which only logs it: nothing leaves the block.
SanityCheckThrows(paths, inputExt) ==
  LET thrownInTry == AllSameAsInput(paths, inputExt)
      caughtAtLine220 == thrownInTry
  IN thrownInTry /\ ~caughtAtLine220

\* Lines 212-224: the sanity check and the return.
CcReturn ==
  /\ cc.pc = "sanity"
  /\ IF SanityCheckThrows(cc.paths, cc.filePath.ext)
     THEN CcThrow("CloudConvert produced files with same extension as input", "")
     ELSE /\ cc' = [cc EXCEPT !.pc = "returned"]
          /\ ret' = [NoRet EXCEPT !.to = cc.caller, !.paths = cc.paths, !.jobId = cc.jobId]
  /\ UNCHANGED <<budget, cfg, req, h, itp, cib, p2i, disk, resp, ctr, hist>>

\* ========================================= convertImageBufferWithFallback
CallCib(caller, buf, outFormat, originalName) ==
  [IdleCib EXCEPT !.pc = "start", !.caller = caller, !.buf = buf, !.fmt = outFormat,
                  !.name = originalName]

\* Lines 258-285: the content type of what the local codec produces.
LocalMime(outFormat) ==
  LET fmt == ToLowerCase(IF outFormat = "" THEN "jpeg" ELSE outFormat)
  IN CASE fmt \in {"jpeg", "jpg"} -> "image/jpeg"
       [] fmt = "png" -> "image/png"
       [] fmt \in {"webp", "avif", "tiff", "bmp"} -> "image/" \o fmt
       [] OTHER -> "image/png"

\* Mutation of ForcedRemote: the credential is not looked at.
ForcedRemoteByNameOnly(originalName) == isHeicByName(originalName, "null")

\* Line 232: the remote path is forced; the mimetype argument is null.
ForcedRemote(originalName) == isHeicByName(originalName, "null") /\ cfg.key

\* Line 251: the input files whose bytes the local codec has been given.
LocalTried(tried) ==
  IF tried /\ cib.buf.k = "in" THEN hist.local \cup {cib.buf.src} ELSE hist.local

\* The input file being converted joins a history set when cond holds.
Noted(set, cond) == IF cond /\ cib.buf.k = "in" THEN set \cup {cib.buf.src} ELSE set

\* Mutation of LocalSucceeds: the local result is never taken.
LocalNeverTaken(localOk) == FALSE

\* Lines 250-286: the local codec is available and produced the image.
LocalSucceeds(localOk) == cfg.sharp /\ localOk

\* Lines 234 and 293: the extension of the temporary input copy.
TmpInExt(originalName, dflt) == IF originalName.ext /= "" THEN originalName.ext ELSE dflt

\* Lines 232-294: up to the call of the remote client.
CibStart ==
  /\ cib.pc = "start"
  /\ \E localOk \in BOOLEAN :
       LET tried == ~ForcedRemote(cib.name) /\ cfg.sharp
       IN
       /\ localOk \/ tried
       /\ Can(Cost(~localOk))
       /\ Spend(Cost(~localOk))
       /\ IF ForcedRemote(cib.name)
          THEN LET tmpIn == Tmp("tmpIn", ctr.tmp + 1, TmpInExt(cib.name, ".heic"))
               IN /\ disk' = disk \cup {tmpIn}
                  /\ ctr' = [ctr EXCEPT !.tmp = @ + 1]
                  /\ hist' = [hist EXCEPT !.tmpw = TRUE, !.remote = Noted(@, TRUE)]
                  /\ cib' = [cib EXCEPT !.pc = "waitForced", !.tmpIn = tmpIn]
                  /\ cc' = CallCc("cib", tmpIn, cib.fmt)
                  /\ UNCHANGED ret
          ELSE IF LocalSucceeds(localOk)
          THEN /\ ret' = [NoRet EXCEPT !.to = cib.caller,
                            !.bufs = <<Buf("local", cib.buf.src, cib.buf.pg, cib.fmt)>>,
                            !.mime = LocalMime(cib.fmt)]
               /\ cib' = IdleCib
               /\ hist' = [hist EXCEPT !.codec = TRUE, !.local = LocalTried(TRUE)]
               /\ UNCHANGED <<disk, ctr, cc>>
          ELSE IF ~cfg.key
          THEN /\ ret' = Throw(cib.caller, "No local sharp and CLOUDCONVERT_API_KEY not configured", "")
               /\ cib' = IdleCib
               /\ hist' = [hist EXCEPT !.codec = @ \/ cfg.sharp, !.local = LocalTried(cfg.sharp),
                                      !.lfail = Noted(@, cfg.sharp /\ ~localOk)]
               /\ UNCHANGED <<disk, ctr, cc>>
          ELSE LET tmpIn == Tmp("tmpIn", ctr.tmp + 1, TmpInExt(cib.name, ".bin"))
               IN /\ disk' = disk \cup {tmpIn}
                  /\ ctr' = [ctr EXCEPT !.tmp = @ + 1]
                  /\ hist' = [hist EXCEPT !.tmpw = TRUE, !.codec = @ \/ cfg.sharp,
                                         !.local = LocalTried(cfg.sharp),
                                         !.lfail = Noted(@, cfg.sharp /\ ~localOk),
                                         !.remote = Noted(@, TRUE)]
                  /\ cib' = [cib EXCEPT !.pc = "waitFallback", !.tmpIn = tmpIn]
                  /\ cc' = CallCc("cib", tmpIn, cib.fmt)
                  /\ UNCHANGED ret
  /\ UNCHANGED <<cfg, req, h, itp, p2i, resp>>

\* Lines 240-241, 300-301 and 353-354: what the success path unlinks.
UnlinkOnSuccess(paths, tmpIn) == Range(paths) \cup {tmpIn}

\* Mutation of UnlinkOnError: the catch block unlinks nothing.
UnlinkNothing(paths, tmpIn) == {}

\* Lines 244, 304 and 357: what the catch block unlinks.
UnlinkOnError(paths, tmpIn) == {tmpIn}

\* Lines 237-246 and 296-306: after the remote client returned or threw.
CibAfterCc ==
  /\ cib.pc \in {"waitForced", "waitFallback"}
  /\ ret.to = "cib"
  /\ \E readOk \in BOOLEAN :
       /\ readOk \/ (ret.ok /\ Len(ret.paths) > 0)
       /\ Can(Cost(~readOk))
       /\ Spend(Cost(~readOk))
       /\ IF ret.ok /\ Len(ret.paths) > 0 /\ readOk
          THEN /\ ret' = [NoRet EXCEPT !.to = cib.caller,
                            !.bufs = <<Buf("remote", cib.buf.src, cib.buf.pg, ret.paths[1].ext)>>,
                            !.mime = MimeLookup(ret.paths[1].ext),
                            !.jobId = ret.jobId]
               /\ disk' = disk \ UnlinkOnSuccess(ret.paths, cib.tmpIn)
          ELSE /\ ret' = IF ~ret.ok THEN [ret EXCEPT !.to = cib.caller]
                         ELSE IF Len(ret.paths) = 0
                         THEN Throw(cib.caller, "CloudConvert produced no files", "")
                         ELSE Throw(cib.caller, "ENOENT", "read")
               /\ disk' = disk \ UnlinkOnError(ret.paths, cib.tmpIn)
  /\ cib' = IdleCib
  /\ cc' = IdleCc
  /\ UNCHANGED <<cfg, req, h, itp, p2i, resp, ctr, hist>>

\* ========================================= pdfToImagesBuffersWithFallback
CallP2i(buf, outFormat, pages) ==
  [IdleP2i EXCEPT !.pc = "start", !.buf = buf, !.fmt = outFormat, !.pages = pages]

\* Lines 327-339: the pages rasterised before the loop ends: it breaks at
\* the first page that fails (good pages precede it).
RasterLoop(pageCount, good) == IF good < pageCount THEN good ELSE pageCount

\* Lines 312-348: local rasterisation, else up to the call of the remote client.
P2iStart ==
  /\ p2i.pc = "start"
  /\ \E loadOk \in BOOLEAN, good \in 0..MaxPages :
       LET pageCount == IF loadOk THEN p2i.pages ELSE 0
           n == IF pageCount <= 0 THEN (IF good > 0 THEN 1 ELSE 0)
                ELSE RasterLoop(pageCount, good)
           fmt == IF p2i.fmt = "png" THEN "png" ELSE "jpeg"
           failedHere == IF pageCount <= 0 THEN good = 0 ELSE good < pageCount
           cost == Cost(~loadOk) + Cost(failedHere)
       IN
       /\ cfg.sharp \/ (loadOk /\ good = MaxPages)
       /\ good = MaxPages \/ good < p2i.pages
       /\ Can(cost)
       /\ Spend(cost)
       /\ IF cfg.sharp /\ n > 0
          THEN /\ ret' = [NoRet EXCEPT !.to = "h",
                            !.bufs = [i \in 1..n |-> Buf("raster", p2i.buf.src, i, fmt)]]
               /\ p2i' = IdleP2i
               /\ hist' = [hist EXCEPT !.codec = TRUE,
                             !.rast = IF failedHere THEN @ \cup {p2i.buf.src} ELSE @]
               /\ UNCHANGED <<disk, ctr, cc>>
          ELSE IF ~cfg.key
          THEN /\ ret' = Throw("h", "Server cannot rasterize PDF locally and CLOUDCONVERT_API_KEY not configured", "")
               /\ p2i' = IdleP2i
               /\ hist' = [hist EXCEPT !.codec = @ \/ cfg.sharp, !.rast = @ \cup {p2i.buf.src}]
               /\ UNCHANGED <<disk, ctr, cc>>
          ELSE LET tmpIn == Tmp("tmpIn", ctr.tmp + 1, ".pdf")
               IN /\ disk' = disk \cup {tmpIn}
                  /\ ctr' = [ctr EXCEPT !.tmp = @ + 1]
                  /\ hist' = [hist EXCEPT !.tmpw = TRUE, !.codec = @ \/ cfg.sharp]
                  /\ p2i' = [p2i EXCEPT !.pc = "waitCc", !.tmpIn = tmpIn]
                  /\ cc' = CallCc("p2i", tmpIn, IF p2i.fmt = "png" THEN "png" ELSE "jpg")
                  /\ UNCHANGED ret
  /\ UNCHANGED <<cfg, req, h, itp, cib, resp>>

\* Lines 350-359: after the remote client returned or threw.
P2iAfterCc ==
  /\ p2i.pc = "waitCc"
  /\ ret.to = "p2i"
  /\ \E readOk \in BOOLEAN :
       /\ readOk \/ (ret.ok /\ Len(ret.paths) > 0)
       /\ Can(Cost(~readOk))
       /\ Spend(Cost(~readOk))
       /\ IF ret.ok /\ Len(ret.paths) > 0 /\ readOk
          THEN /\ ret' = [NoRet EXCEPT !.to = "h",
                            !.bufs = [i \in 1..Len(ret.paths) |->
                                        Buf("remote", p2i.buf.src, i, ret.paths[i].ext)],
                            !.jobId = ret.jobId]
               /\ disk' = disk \ UnlinkOnSuccess(ret.paths, p2i.tmpIn)
               /\ UNCHANGED hist
          ELSE /\ ret' = IF ~ret.ok THEN [ret EXCEPT !.to = "h"]
                         ELSE IF Len(ret.paths) = 0
                         THEN Throw("h", "CloudConvert produced no files for PDF", "")
                         ELSE Throw("h", "ENOENT", "read")
               /\ disk' = disk \ UnlinkOnError(ret.paths, p2i.tmpIn)
               /\ hist' = [hist EXCEPT !.rast = @ \cup {p2i.buf.src}]
  /\ p2i' = IdleP2i
  /\ cc' = IdleCc
  /\ UNCHANGED <<cfg, req, h, itp, cib, resp, ctr>>

\* ============================================================ imagesToPdf
CallItp(caller, buffers) ==
  [IdleItp EXCEPT !.pc = "create", !.caller = caller, !.bufs = buffers, !.k = 1]

\* The pdf-lib calls of one loop iteration, each of which may throw.
EmbedSteps ==
  {"embedJpg", "addPageJpg", "drawJpg", "embedPng", "addPagePng", "drawPng",
   "addPageNote", "drawNote", "addPageUnexpected", "drawUnexpected"}

\* Lines 375-413: the pages one image adds to the document, given which
\* calls succeed (ok), and whether the iteration throws out of the function.
\* A page added by addPage stays in the document when the draw that follows
\* throws.
EmbedOne(ok) ==
  IF ok["embedJpg"] /\ ok["addPageJpg"] /\ ok["drawJpg"]
  THEN [vias |-> <<"jpg">>, thrown |-> FALSE]
  ELSE
    LET p1 == IF ok["embedJpg"] /\ ok["addPageJpg"] THEN <<"blank">> ELSE <<>>
    IN IF ok["embedPng"] /\ ok["addPagePng"] /\ ok["drawPng"]
       THEN [vias |-> p1 \o <<"png">>, thrown |-> FALSE]
       ELSE
         LET p2 == p1 \o (IF ok["embedPng"] /\ ok["addPagePng"] THEN <<"blank">> ELSE <<>>)
         IN IF ok["addPageNote"] /\ ok["drawNote"]
            THEN [vias |-> p2 \o <<"note">>, thrown |-> FALSE]
            ELSE
              LET p3 == p2 \o (IF ok["addPageNote"] THEN <<"blank">> ELSE <<>>)
              IN IF ok["addPageUnexpected"] /\ ok["drawUnexpected"]
                 THEN [vias |-> p3 \o <<"note">>, thrown |-> FALSE]
                 ELSE [vias |-> p3 \o (IF ok["addPageUnexpected"] THEN <<"blank">> ELSE <<>>),
                       thrown |-> TRUE]

\* Every result one loop iteration can have, with the number of calls that
\* threw.
EmbedResults ==
  {[res |-> EmbedOne(ok), cost |-> Cardinality({st \in EmbedSteps : ~ok[st]})] :
     ok \in [EmbedSteps -> BOOLEAN]}

\* Line 364: PDFDocument.create().
ItpCreate ==
  /\ itp.pc = "create"
  /\ \E ok \in BOOLEAN :
       /\ Can(Cost(~ok))
       /\ Spend(Cost(~ok))
       /\ IF ok
          THEN /\ itp' = [itp EXCEPT !.pc = IF Len(itp.bufs) = 0 THEN "save" ELSE "conv"]
               /\ UNCHANGED ret
          ELSE /\ itp' = IdleItp
               /\ ret' = Throw(itp.caller, "PDFDocument.create failed", "")
  /\ hist' = [hist EXCEPT !.codec = TRUE]
  /\ UNCHANGED <<cfg, req, h, cib, p2i, cc, disk, resp, ctr>>

\* Line 368: the re-encoding of image k; the original name is not passed,
\* so the callee sees its default, 'input'.
ItpConv ==
  /\ itp.pc = "conv"
  /\ cib' = CallCib("itp", itp.bufs[itp.k], "jpeg", [base |-> "input", ext |-> ""])
  /\ itp' = [itp EXCEPT !.pc = "waitConv"]
  /\ UNCHANGED <<budget, cfg, req, h, p2i, cc, ret, disk, resp, ctr, hist>>

\* Lines 369-413: the embedding of image k, compressed or (line 372) as it was.
ItpEmbed ==
  /\ itp.pc = "waitConv"
  /\ ret.to = "itp"
  /\ \E er \in EmbedResults :
       LET r == er.res
           compressed == IF ret.ok THEN ret.bufs[1] ELSE itp.bufs[itp.k]
           added == [j \in 1..Len(r.vias) |->
                       [src |-> compressed.src, pg |-> compressed.pg, via |-> r.vias[j]]]
       IN
       /\ Can(er.cost)
       /\ Spend(er.cost)
       /\ IF r.thrown
          THEN /\ itp' = IdleItp
               /\ ret' = Throw(itp.caller, "addPage failed", "")
          ELSE /\ itp' = [itp EXCEPT !.pages = @ \o added, !.k = @ + 1,
                            !.pc = IF itp.k < Len(itp.bufs) THEN "conv" ELSE "save"]
               /\ ret' = NoRet
  /\ UNCHANGED <<cfg, req, h, cib, p2i, cc, disk, resp, ctr, hist>>

\* Line 415: pdfDoc.save().
ItpSave ==
  /\ itp.pc = "save"
  /\ \E ok \in BOOLEAN :
       /\ Can(Cost(~ok))
       /\ Spend(Cost(~ok))
       /\ ret' = IF ok THEN [NoRet EXCEPT !.to = itp.caller, !.pages = itp.pages]
                 ELSE Throw(itp.caller, "pdfDoc.save failed", "")
  /\ itp' = IdleItp
  /\ UNCHANGED <<cfg, req, h, cib, p2i, cc, disk, resp, ctr, hist>>

\* ====================================================== POST /api/convert
\* One element of outputs: name, buffer, mime and the optional note; src is
\* the input file it was made from (0: from all of them), pages the pages of
\* a document built by imagesToPdf.
Out(name, src, kind, buf, m, note, pages) ==
  [name |-> name, src |-> src, kind |-> kind, buf |-> buf, mime |-> m, note |-> note,
   pages |-> pages]

InputBuffer(i) == Buf("in", i, 0, "")

\* A variant of the test of line 420 that only sees a missing list.
NoFilesMissingOnly(files) == FALSE

\* Line 420: no files were uploaded.
NoFiles(files) == Len(files) = 0

\* Line 422.
TargetFormat(raw) == ToLowerCase(IF raw = "" THEN "pdf" ELSE raw)

\* A variant of line 425 that reads the flag only.
MakeZipFlagOnly(zip, files) == zip

\* Line 425.
MakeZip(zip, files) == zip \/ Len(files) > 1

\* Line 432.
OnlyImages(files) == \A i \in 1..Len(files) : isImageMime(files[i].mime)

\* Line 441.
InMime(f) == IF f.mime /= "" THEN f.mime ELSE MimeLookup(f.ext)

\* The for loop of line 439: the position once file i is the next one.
LoopPc(i) == IF i <= Len(req.files) THEN "loop" ELSE "respond"

\* A variant of the loop body that moves to the next file and appends nothing.
PushNothing(out) == [h EXCEPT !.i = @ + 1, !.pc = LoopPc(h.i + 1)]

\* Lines 447, 453, 456, 462, 469, 472, 486, 490: one output is appended and the
\* loop moves to the next file.
Push(out) == [h EXCEPT !.outputs = Append(@, out), !.i = @ + 1, !.pc = LoopPc(h.i + 1)]

\* An error reaches the handler's own catch (line 518).
ToCatch(msg) == [h EXCEPT !.pc = "catch", !.err = msg]

\* Lines 420-434: the empty request, else the choice of the branch.
H_Start ==
  /\ h.pc = "start"
  /\ IF NoFiles(req.files)
     THEN /\ resp' = [NoResp EXCEPT !.status = 400, !.kind = "json", !.error = "No files uploaded"]
          /\ h' = [h EXCEPT !.pc = "done"]
     ELSE /\ h' = [h EXCEPT !.i = 1,
                     !.pc = IF TargetFormat(req.target) = "pdf" /\ OnlyImages(req.files)
                            THEN "readAll" ELSE LoopPc(1)]
          /\ UNCHANGED resp
  /\ UNCHANGED <<budget, cfg, req, itp, cib, p2i, cc, ret, disk, ctr, hist>>

\* Lines 435-436: every file is read, then imagesToPdf is called on them all.
H_ReadAll ==
  /\ h.pc = "readAll"
  /\ \E readOk \in BOOLEAN :
       /\ Can(Cost(~readOk))
       /\ Spend(Cost(~readOk))
       /\ IF readOk
          THEN /\ itp' = CallItp("h", [i \in 1..Len(req.files) |-> InputBuffer(i)])
               /\ h' = [h EXCEPT !.pc = "waitCombined"]
          ELSE /\ h' = ToCatch("ENOENT:read")
               /\ UNCHANGED itp
  /\ UNCHANGED <<cfg, req, cib, p2i, cc, ret, disk, resp, ctr, hist>>

\* Lines 436-437: the one document of the whole batch.
H_AfterCombined ==
  /\ h.pc = "waitCombined"
  /\ ret.to = "h"
  /\ IF ret.ok
     THEN /\ h' = [h EXCEPT !.pc = "respond",
                     !.outputs = Append(@, Out("<now>_<uuid>.pdf", 0, "combined", NoBuf,
                                               "application/pdf", "", ret.pages))]
          /\ UNCHANGED hist
     ELSE /\ h' = ToCatch(Message(ret))
          /\ hist' = [hist EXCEPT !.failed = @ \cup {0}]
  /\ ret' = NoRet
  /\ UNCHANGED <<budget, cfg, req, itp, cib, p2i, cc, disk, resp, ctr>>

\* Lines 439-490: file i is read and its branch is entered.
H_File ==
  /\ h.pc = "loop"
  /\ \E readOk \in BOOLEAN :
       LET f == req.files[h.i]
           inputBuffer == InputBuffer(h.i)
           inMime == InMime(f)
           targetFormat == TargetFormat(req.target)
       IN
       /\ Can(Cost(~readOk))
       /\ Spend(Cost(~readOk))
       /\ IF ~readOk
          THEN h' = ToCatch("ENOENT:read") /\ UNCHANGED <<itp, cib, p2i>>
          ELSE IF isImageMime(inMime) \/ isHeicByName(f, inMime)
          THEN IF targetFormat = "pdf"
               THEN /\ itp' = CallItp("h", <<inputBuffer>>)
                    /\ h' = [h EXCEPT !.pc = "waitSingle"]
                    /\ UNCHANGED <<cib, p2i>>
               ELSE /\ cib' = CallCib("h", inputBuffer, targetFormat, f)
                    /\ h' = [h EXCEPT !.pc = "waitConv"]
                    /\ UNCHANGED <<itp, p2i>>
          ELSE IF isPdfMime(inMime, f)
          THEN IF targetFormat = "pdf"
               THEN IF ~req.compress
                    THEN /\ h' = Push(Out(f.base \o ".pdf", h.i, "passthrough", inputBuffer,
                                          "application/pdf", "", <<>>))
                         /\ UNCHANGED <<itp, cib, p2i>>
                    ELSE /\ p2i' = CallP2i(inputBuffer, "jpg", f.pages)
                         /\ h' = [h EXCEPT !.pc = "waitRaster"]
                         /\ UNCHANGED <<itp, cib>>
               ELSE /\ p2i' = CallP2i(inputBuffer, IF targetFormat = "png" THEN "png" ELSE "jpg",
                                      f.pages)
                    /\ h' = [h EXCEPT !.pc = "waitPages"]
                    /\ UNCHANGED <<itp, cib>>
          ELSE /\ h' = Push(Out(f.base \o f.ext, h.i, "unknown", inputBuffer, inMime,
                                "Unknown input type, returned original.", <<>>))
               /\ UNCHANGED <<itp, cib, p2i>>
  /\ UNCHANGED <<cfg, req, cc, ret, disk, resp, ctr, hist>>

\* The degraded outcome: the original bytes of file i with the error as note.
Original(i, name, m, msg) == Out(name, i, "original", InputBuffer(i), m, msg, <<>>)

\* Lines 446-447: the document of one image; the call is in no try block.
H_AfterSingle ==
  /\ h.pc = "waitSingle"
  /\ ret.to = "h"
  /\ IF ret.ok
     THEN /\ h' = Push(Out(req.files[h.i].base \o ".pdf", h.i, "pdf", NoBuf,
                           "application/pdf", "", ret.pages))
          /\ UNCHANGED hist
     ELSE /\ h' = ToCatch(Message(ret))
          /\ hist' = [hist EXCEPT !.failed = @ \cup {h.i}]
  /\ ret' = NoRet
  /\ UNCHANGED <<budget, cfg, req, itp, cib, p2i, cc, disk, resp, ctr>>

\* Lines 450-457: the converted image, else the original with a note.
H_AfterConv ==
  /\ h.pc = "waitConv"
  /\ ret.to = "h"
  /\ LET f == req.files[h.i]
         e == MimeExtension(ret.mime)
         ext == IF e /= "" THEN e ELSE TargetFormat(req.target)
     IN IF ret.ok
        THEN /\ h' = [Push(Out(f.base \o "." \o ext, h.i, "converted", ret.bufs[1], ret.mime,
                               "", <<>>))
                        EXCEPT !.jobs = IF ret.jobId /= 0 THEN @ \cup {ret.jobId} ELSE @]
             /\ UNCHANGED hist
        ELSE /\ h' = Push(Original(h.i, f.base \o "_original" \o f.ext, InMime(f), Message(ret)))
             /\ hist' = [hist EXCEPT !.failed = @ \cup {h.i}]
  /\ ret' = NoRet
  /\ UNCHANGED <<budget, cfg, req, itp, cib, p2i, cc, disk, resp, ctr>>

\* Lines 465-468 and 470-473: the rasterised pages go to imagesToPdf.
H_AfterRaster ==
  /\ h.pc = "waitRaster"
  /\ ret.to = "h"
  /\ LET f == req.files[h.i]
     IN IF ret.ok /\ Len(ret.bufs) > 0
        THEN /\ itp' = CallItp("h", ret.bufs)
             /\ h' = [h EXCEPT !.pc = "waitRebuilt",
                        !.jobs = IF ret.jobId /= 0 THEN @ \cup {ret.jobId} ELSE @]
             /\ UNCHANGED hist
        ELSE /\ h' = [Push(Original(h.i, f.base \o "_original.pdf", "application/pdf",
                                    IF ret.ok THEN "Cannot rasterize PDF pages:"
                                    ELSE Message(ret)))
                        EXCEPT !.jobs = IF ret.ok /\ ret.jobId /= 0 THEN @ \cup {ret.jobId} ELSE @]
             /\ hist' = [hist EXCEPT !.failed = @ \cup {h.i}]
             /\ UNCHANGED itp
  /\ ret' = NoRet
  /\ UNCHANGED <<budget, cfg, req, cib, p2i, cc, disk, resp, ctr>>

\* Lines 468-473: the rebuilt document, else the original with a note.
H_AfterRebuilt ==
  /\ h.pc = "waitRebuilt"
  /\ ret.to = "h"
  /\ LET f == req.files[h.i]
     IN IF ret.ok
        THEN /\ h' = Push(Out(f.base \o "_compressed.pdf", h.i, "compressed", NoBuf,
                              "application/pdf", "", ret.pages))
             /\ UNCHANGED hist
        ELSE /\ h' = Push(Original(h.i, f.base \o "_original.pdf", "application/pdf", Message(ret)))
             /\ hist' = [hist EXCEPT !.failed = @ \cup {h.i}]
  /\ ret' = NoRet
  /\ UNCHANGED <<budget, cfg, req, itp, cib, p2i, cc, disk, resp, ctr>>

\* A variant of line 482 that numbers the page images from 0.
PageNameFromZero(base, i, ext) == base \o "_page" \o ToString(i - 1) \o "." \o ext

\* Line 482: the name of page image i (1-based) of a document.
PageName(base, i, ext) == base \o "_page" \o ToString(i) \o "." \o ext

\* Lines 477-487: one output per page image, else the original with a note.
H_AfterPages ==
  /\ h.pc = "waitPages"
  /\ ret.to = "h"
  /\ LET f == req.files[h.i]
         ext == IF TargetFormat(req.target) = "png" THEN "png" ELSE "jpg"
         outs == [i \in 1..Len(ret.bufs) |->
                    Out(PageName(f.base, i, ext), h.i, "page", ret.bufs[i],
                        IF ext = "png" THEN "image/png" ELSE "image/jpeg", "", <<>>)]
     IN IF ret.ok /\ Len(ret.bufs) > 0
        THEN /\ h' = [h EXCEPT !.outputs = @ \o outs, !.i = @ + 1, !.pc = LoopPc(h.i + 1),
                        !.jobs = IF ret.jobId /= 0 THEN @ \cup {ret.jobId} ELSE @]
             /\ UNCHANGED hist
        ELSE /\ h' = [Push(Original(h.i, f.base \o "_original.pdf", "application/pdf",
                                    IF ret.ok THEN "Unable to rasterize PDF pages:"
                                    ELSE Message(ret)))
                        EXCEPT !.jobs = IF ret.ok /\ ret.jobId /= 0 THEN @ \cup {ret.jobId} ELSE @]
             /\ hist' = [hist EXCEPT !.failed = @ \cup {h.i}]
  /\ ret' = NoRet
  /\ UNCHANGED <<budget, cfg, req, itp, cib, p2i, cc, disk, resp, ctr>>

\* Mutation of XNote: the header is never set.
XNoteNever(o) == ""

\* Line 515: the X-Note header of a single output ("" when it is not set).
XNote(o) == o.note

\* Lines 495-517: the uploads are unlinked and the response is sent: an
\* archive, or the single output. With no output at all, line 513 throws.
H_Respond ==
  /\ h.pc = "respond"
  /\ disk' = disk \ Uploads(req.files)
  /\ IF MakeZip(req.zip, req.files) \/ Len(h.outputs) > 1
     THEN /\ resp' = [NoResp EXCEPT !.status = 200, !.kind = "zip", !.entries = h.outputs,
                        !.mime = "application/zip", !.jobsHeader = h.jobs]
          /\ h' = [h EXCEPT !.pc = "done"]
     ELSE IF Len(h.outputs) = 0
     THEN /\ resp' = [resp EXCEPT !.jobsHeader = h.jobs]
          /\ h' = ToCatch("TypeError:")
     ELSE /\ resp' = [NoResp EXCEPT !.status = 200, !.kind = "file", !.entries = h.outputs,
                        !.mime = IF h.outputs[1].mime /= "" THEN h.outputs[1].mime
                                 ELSE "application/octet-stream",
                        !.note = XNote(h.outputs[1]), !.jobsHeader = h.jobs]
          /\ h' = [h EXCEPT !.pc = "done"]
  /\ UNCHANGED <<budget, cfg, req, itp, cib, p2i, cc, ret, ctr, hist>>

\* Lines 518-522: the handler's catch: the uploads are unlinked, status 500.
H_Catch ==
  /\ h.pc = "catch"
  /\ disk' = disk \ Uploads(req.files)
  /\ resp' = [resp EXCEPT !.status = 500, !.kind = "json", !.error = "Processing error: " \o h.err]
  /\ h' = [h EXCEPT !.pc = "done"]
  /\ UNCHANGED <<budget, cfg, req, itp, cib, p2i, cc, ret, ctr, hist>>

\* ------------------------------------------------------ the specification
Next ==
  \/ H_Start
  \/ H_ReadAll
  \/ H_AfterCombined
  \/ H_File
  \/ H_AfterSingle
  \/ H_AfterConv
  \/ H_AfterRaster
  \/ H_AfterRebuilt
  \/ H_AfterPages
  \/ H_Respond
  \/ H_Catch
  \/ ItpCreate
  \/ ItpConv
  \/ ItpEmbed
  \/ ItpSave
  \/ CibStart
  \/ CibAfterCc
  \/ P2iStart
  \/ P2iAfterCc
  \/ CcCreate
  \/ CcUpload
  \/ CcPoll
  \/ CcAfterPoll
  \/ CcDownload
  \/ CcReturn

Spec == Init /\ [][Next]_vars

\* The remote client on its own: cloudConvertFallbackConvert called on a
\* temporary input copy, with no limit on what the service may answer.
InitJob ==
  /\ cfg \in [sharp : {FALSE}, key : BOOLEAN]
  /\ req = [files |-> <<>>, target |-> "jpg", zip |-> FALSE, compress |-> FALSE]
  /\ h = [IdleH EXCEPT !.pc = "off"]
  /\ itp = IdleItp
  /\ cib = IdleCib
  /\ p2i = IdleP2i
  /\ \E ext \in {".heic", ".bin", ".pdf", ".jpg"}, fmt \in {"jpg", "jpeg", "png", ""} :
       /\ cc = CallCc("caller", Tmp("tmpIn", 1, ext), fmt)
       /\ disk = {Tmp("tmpIn", 1, ext)}
  /\ ret = NoRet
  /\ resp = NoResp
  /\ ctr = [job |-> 0, tmp |-> 1]
  /\ budget = Unlimited
  /\ hist = NoHist

NextJob ==
  \/ CcCreate
  \/ CcUpload
  \/ CcPoll
  \/ CcAfterPoll
  \/ CcDownload
  \/ CcReturn

SpecJob == InitJob /\ [][NextJob]_vars

\* The remote client when every network call returns or fails, and the code
\* between two calls runs: a step that can be taken is taken.
SpecJobLive == InitJob /\ [][NextJob]_vars /\ WF_vars(NextJob)

\* ============================================================ clampQuality
\* JavaScript values that reach clampQuality: undefined (the field is absent
\* from the form), a string (a form field: its characters), or a number.
Undefined == [t |-> "undefined", s |-> <<>>, n |-> 0]
Str(chars) == [t |-> "string", s |-> chars, n |-> 0]
Num(k) == [t |-> "number", s |-> <<>>, n |-> k]

Digits == <<"0", "1", "2", "3", "4", "5", "6", "7", "8", "9">>

IsDigit(c) == \E d \in 1..10 : Digits[d] = c

DigitValue(c) == (CHOOSE d \in 1..10 : Digits[d] = c) - 1

\* a || b: the left operand unless it is falsy (undefined, '', 0).
OrElse(a, b) ==
  IF a.t = "undefined" \/ (a.t = "string" /\ a.s = <<>>) \/ (a.t = "number" /\ a.n = 0)
  THEN b ELSE a

RECURSIVE NatToChars(_)
NatToChars(k) == IF k < 10 THEN <<Digits[k + 1]>> ELSE NatToChars(k \div 10) \o <<Digits[(k % 10) + 1]>>

\* String(v), as parseInt applies it to its argument.
ToChars(v) ==
  CASE v.t = "string" -> v.s
    [] v.t = "number" -> IF v.n < 0 THEN <<"-">> \o NatToChars(0 - v.n) ELSE NatToChars(v.n)
    [] OTHER -> <<"u", "n", "d", "e", "f", "i", "n", "e", "d">>

RECURSIVE SkipWhite(_)
SkipWhite(s) == IF s /= <<>> /\ Head(s) = " " THEN SkipWhite(Tail(s)) ELSE s

\* The digits s starts with, read in base 10 onto acc; any is whether a digit
\* was read.
RECURSIVE ReadDigits(_, _, _)
ReadDigits(s, acc, any) ==
  IF s /= <<>> /\ IsDigit(Head(s))
  THEN ReadDigits(Tail(s), acc * 10 + DigitValue(Head(s)), TRUE)
  ELSE [nan |-> ~any, n |-> acc]

\* parseInt(v, 10): leading blanks are skipped, a sign is read, then digits
\* up to the first character that is not one; NaN when there is no digit.
ParseInt(v) ==
  LET s == SkipWhite(ToChars(v))
      signed == s /= <<>> /\ Head(s) \in {"-", "+"}
      r == ReadDigits(IF signed THEN Tail(s) ELSE s, 0, FALSE)
  IN IF signed /\ Head(s) = "-" THEN [r EXCEPT !.n = 0 - @] ELSE r

MathMax(a, b) == IF a >= b THEN a ELSE b

MathMin(a, b) == IF a <= b THEN a ELSE b

\* Mutation of clampQuality: the upper bound is not applied.
clampQualityNoCeiling(q) ==
  LET n == ParseInt(OrElse(q, Str(<<"8", "0">>)))
  IN MathMax(10, IF n.nan THEN 80 ELSE n.n)

\* Line 92.
clampQuality(q) ==
  LET n == ParseInt(OrElse(q, Str(<<"8", "0">>)))
  IN MathMax(10, MathMin(95, IF n.nan THEN 80 ELSE n.n))

\* req.body.quality as a client can send it: absent, or any text.
MaxQualityLen == 3

QualityChars == {"0", "1", "5", "9", "-", "a"}

QualityInputs ==
  {Undefined} \cup {Str(s) : s \in UNION {[1..n -> QualityChars] : n \in 0..MaxQualityLen}}

\* The quality of a request on its way through the program: the handler
\* clamps the form field (line 423), the codec path clamps the handler's
\* number again (line 257).
InitQuality ==
  /\ cfg = [sharp |-> TRUE, key |-> FALSE]
  /\ req \in [quality : QualityInputs]
  /\ h = [IdleH EXCEPT !.pc = "quality"]
  /\ itp = IdleItp
  /\ cib = IdleCib
  /\ p2i = IdleP2i
  /\ cc = IdleCc
  /\ ret = [to |-> "none", value |-> 0]
  /\ disk = {}
  /\ resp = NoResp
  /\ ctr = [job |-> 0, tmp |-> 0]
  /\ budget = Unlimited
  /\ hist = NoHist

\* Line 423: quality = clampQuality(req.body.quality || '80').
ClampInHandler ==
  /\ h.pc = "quality"
  /\ ret' = [to |-> "handler", value |-> clampQuality(OrElse(req.quality, Str(<<"8", "0">>)))]
  /\ h' = [h EXCEPT !.pc = "codec"]
  /\ UNCHANGED <<cfg, req, itp, cib, p2i, cc, disk, resp, ctr, budget, hist>>

\* Line 257: q = clampQuality(quality), on the number the handler passed.
ClampInCodec ==
  /\ h.pc = "codec"
  /\ ret' = [to |-> "codec", value |-> clampQuality(Num(ret.value))]
  /\ h' = [h EXCEPT !.pc = "clamped"]
  /\ UNCHANGED <<cfg, req, itp, cib, p2i, cc, disk, resp, ctr, budget, hist>>

NextQuality ==
  \/ ClampInHandler
  \/ ClampInCodec

SpecQuality == InitQuality /\ [][NextQuality]_vars

\* ================================================================= maxDim
\* Line 71: MAX_DIMENSION when the environment does not set it.
MAX_DIMENSION == 2480

\* Line 424: parseInt(req.body.maxDim || String(MAX_DIMENSION), 10) || MAX_DIMENSION;
\* NaN and 0 are falsy.
EffectiveMaxDim(v) ==
  LET n == ParseInt(OrElse(v, Str(NatToChars(MAX_DIMENSION))))
  IN IF n.nan \/ n.n = 0 THEN MAX_DIMENSION ELSE n.n

\* A request with a maxDim field: absent, or any text.
InitMaxDim ==
  /\ cfg = [sharp |-> TRUE, key |-> FALSE]
  /\ req \in [maxDim : QualityInputs]
  /\ h = [IdleH EXCEPT !.pc = "maxDim"]
  /\ itp = IdleItp
  /\ cib = IdleCib
  /\ p2i = IdleP2i
  /\ cc = IdleCc
  /\ ret = [to |-> "none", value |-> 0]
  /\ disk = {}
  /\ resp = NoResp
  /\ ctr = [job |-> 0, tmp |-> 0]
  /\ budget = Unlimited
  /\ hist = NoHist

\* Line 424.
ParseMaxDim ==
  /\ h.pc = "maxDim"
  /\ ret' = [to |-> "handler", value |-> EffectiveMaxDim(req.maxDim)]
  /\ h' = [h EXCEPT !.pc = "parsed"]
  /\ UNCHANGED <<cfg, req, itp, cib, p2i, cc, disk, resp, ctr, budget, hist>>

NextMaxDim == ParseMaxDim

SpecMaxDim == InitMaxDim /\ [][NextMaxDim]_vars

\* ============================================ two concurrent conversions
\* Two requests, each converting one image through the remote client, are
\* interleaved at their suspension points (the awaits of lines 121, 145, 198
\* and 236 / 296). In this specification cib holds one frame per conversion,
\* req the file of each, ctr the clock, disk the files with the bytes they
\* hold, and hist the conversions whose files another one overwrote, read or
\* deleted, and those that found their input copy missing.
MaxClock == 2

Conversions == {1, 2}

ConcurrentInputs ==
  {File("b", ".heic", "image/heic", 0),
   File("e", ".heic", "application/octet-stream", 0),
   File("a", ".png", "image/png", 0)}

\* The name of a file without its extension (path.parse(p).name, line 195).
NoStem == [prefix |-> "", now |-> 0, rand |-> ""]
Stem(p) == [prefix |-> p.prefix, now |-> p.now, rand |-> p.rand]

\* A path under UPLOAD_DIR: <parent><prefix><now><rand><ext>.
Path(parent, prefix, now, rand, ext) ==
  [parent |-> parent, prefix |-> prefix, now |-> now, rand |-> rand, ext |-> ext]
NoPath == Path(NoStem, "", 0, "", "")

\* Math.random().toString(36).slice(2,8): draw n of conversion c. Two draws
\* are taken to differ.
Random(c, n) == "_" \o ToString(c) \o "x" \o ToString(n)

\* Line 234: tmp_in_${Date.now()}${ext || '.heic'}.
ForcedTmpIn(now, originalName) ==
  Path(NoStem, "tmp_in_", now, "", TmpInExt(originalName, ".heic"))

\* Line 293: tmp_${Date.now()}_${random}${ext || '.bin'}.
FallbackTmpIn(now, rand, originalName) ==
  Path(NoStem, "tmp_", now, rand, TmpInExt(originalName, ".bin"))

\* Line 195: ${path.parse(filePath).name}_cloudconv_${Date.now()}_${random}${ext}.
TmpOut(filePath, now, rand, ext) == Path(Stem(filePath), "_cloudconv_", now, rand, ext)

IdleConv == [pc |-> "start", tmpIn |-> NoPath, paths |-> <<>>, sent |-> 0, got |-> 0]

NoTouch == [overwritten |-> {}, read |-> {}, deleted |-> {}, missing |-> {}]

\* The temporary files conversion c has created and not yet unlinked.
Held(c) ==
  (IF cib[c].pc \in {"upload", "download", "finish", "error"} THEN {cib[c].tmpIn} ELSE {})
  \cup (IF cib[c].pc \in {"download", "finish", "error"} THEN Range(cib[c].paths) ELSE {})

\* The conversions other than c that hold path p.
OthersHolding(c, p) == {d \in Conversions \ {c} : p \in Held(d)}

\* fs.writeFileSync / fs.createWriteStream: the file holds the writer's bytes.
WriteFile(c, p) == {e \in disk : e.path /= p} \cup {[path |-> p, bytes |-> c]}

\* fs.readFileSync / fs.createReadStream: whose bytes the file holds, 0 when
\* there is no such file.
ReadFile(p) ==
  IF \E e \in disk : e.path = p THEN (CHOOSE e \in disk : e.path = p).bytes ELSE 0

\* fs.unlinkSync in a try block.
UnlinkFiles(ps) == {e \in disk : e.path \notin ps}

InitTmp ==
  /\ cfg \in [sharp : BOOLEAN, key : {TRUE}]
  /\ req \in [Conversions -> ConcurrentInputs]
  /\ h = IdleH
  /\ itp = IdleItp
  /\ cib = [c \in Conversions |-> IdleConv]
  /\ p2i = IdleP2i
  /\ cc = IdleCc
  /\ ret = NoRet
  /\ disk = {}
  /\ resp = NoResp
  /\ ctr = [now |-> 1]
  /\ budget = Unlimited
  /\ hist = NoTouch

\* Date.now() moves on between two steps.
T_Tick ==
  /\ ctr.now < MaxClock
  /\ ctr' = [ctr EXCEPT !.now = @ + 1]
  /\ UNCHANGED <<cfg, req, h, itp, cib, p2i, cc, ret, disk, resp, budget, hist>>

\* Lines 232-236 and 250-296: the local codec, else the temporary input copy
\* is written and the remote client is called.
T_Start ==
  \E c \in Conversions, localOk \in BOOLEAN :
    LET tmpIn == IF ForcedRemote(req[c]) THEN ForcedTmpIn(ctr.now, req[c])
                 ELSE FallbackTmpIn(ctr.now, Random(c, 0), req[c])
    IN /\ cib[c].pc = "start"
       /\ localOk \/ (~ForcedRemote(req[c]) /\ cfg.sharp)
       /\ IF ~ForcedRemote(req[c]) /\ LocalSucceeds(localOk)
          THEN /\ cib' = [cib EXCEPT ![c].pc = "done"]
               /\ UNCHANGED <<disk, hist>>
          ELSE /\ disk' = WriteFile(c, tmpIn)
               /\ hist' = [hist EXCEPT !.overwritten = @ \cup OthersHolding(c, tmpIn)]
               /\ cib' = [cib EXCEPT ![c].pc = "upload", ![c].tmpIn = tmpIn]
    /\ UNCHANGED <<cfg, req, h, itp, p2i, cc, ret, resp, ctr, budget>>

\* Lines 141-151: the job exists; the input copy is read and uploaded.
T_Upload ==
  \E c \in Conversions, ok \in BOOLEAN :
    LET bytes == ReadFile(cib[c].tmpIn)
    IN /\ cib[c].pc = "upload"
       /\ cib' = [cib EXCEPT ![c].pc = IF ok /\ bytes /= 0 THEN "download" ELSE "error",
                             ![c].sent = bytes]
       /\ hist' = [hist EXCEPT !.read = IF bytes \notin {0, c} THEN @ \cup {bytes} ELSE @,
                               !.missing = IF bytes = 0 THEN @ \cup {c} ELSE @]
    /\ UNCHANGED <<cfg, req, h, itp, p2i, cc, ret, disk, resp, ctr, budget>>

\* Lines 192-210: one result file is downloaded to tmpOut.
T_Download ==
  \E c \in Conversions, ok \in BOOLEAN, last \in BOOLEAN :
    LET n == Len(cib[c].paths) + 1
        tmpOut == TmpOut(cib[c].tmpIn, ctr.now, Random(c, n), ExtFromName("", "png"))
    IN /\ cib[c].pc = "download"
       /\ last \/ n < MaxExport
       /\ disk' = WriteFile(c, tmpOut)
       /\ hist' = [hist EXCEPT !.overwritten = @ \cup OthersHolding(c, tmpOut)]
       /\ cib' = [cib EXCEPT ![c].paths = IF ok THEN Append(@, tmpOut) ELSE @,
                             ![c].pc = IF ~ok THEN "error"
                                       ELSE IF last THEN "finish" ELSE "download"]
    /\ UNCHANGED <<cfg, req, h, itp, p2i, cc, ret, resp, ctr, budget>>

\* Lines 237-242 and 297-302: the first result is read, the results and the
\* input copy are unlinked.
T_Finish ==
  \E c \in Conversions :
    LET gone == UnlinkOnSuccess(cib[c].paths, cib[c].tmpIn)
    IN /\ cib[c].pc = "finish"
       /\ disk' = UnlinkFiles(gone)
       /\ hist' = [hist EXCEPT
                     !.deleted = @ \cup UNION {OthersHolding(c, p) : p \in gone}]
       /\ cib' = [cib EXCEPT ![c].pc = "done", ![c].got = ReadFile(cib[c].paths[1])]
    /\ UNCHANGED <<cfg, req, h, itp, p2i, cc, ret, resp, ctr, budget>>

\* Lines 243-246 and 303-306: the catch block unlinks the input copy.
T_Catch ==
  \E c \in Conversions :
    LET gone == UnlinkOnError(cib[c].paths, cib[c].tmpIn)
    IN /\ cib[c].pc = "error"
       /\ disk' = UnlinkFiles(gone)
       /\ hist' = [hist EXCEPT
                     !.deleted = @ \cup UNION {OthersHolding(c, p) : p \in gone}]
       /\ cib' = [cib EXCEPT ![c].pc = "thrown"]
    /\ UNCHANGED <<cfg, req, h, itp, p2i, cc, ret, resp, ctr, budget>>

NextTmp ==
  \/ T_Tick
  \/ T_Start
  \/ T_Upload
  \/ T_Download
  \/ T_Finish
  \/ T_Catch

SpecTmp == InitTmp /\ [][NextTmp]_vars

\* ================================================================ claims
PerFileBranch == ~(TargetFormat(req.target) = "pdf" /\ OnlyImages(req.files))

OutputsOf(i) == {k \in 1..Len(resp.entries) : resp.entries[k].src = i}

IsOriginalWithNote(o) == o.kind = "original" /\ o.buf = InputBuffer(o.src) /\ o.note /= ""

\* C1: in a per-file batch of N >= 2 files in which the conversion of exactly
\* one file fails irrecoverably (its helper throws), the response is a
\* success that holds an output other than a degraded one for every other
\* file, and the original bytes with a note for the failed file.
C1_OneFailureKeepsBatch ==
  (/\ h.pc = "done"
   /\ PerFileBranch
   /\ Len(req.files) >= 2
   /\ Cardinality(hist.failed) = 1
   /\ h.err /= "ENOENT:read")
  => /\ resp.status = 200
     /\ \A i \in 1..Len(req.files) :
          IF i \in hist.failed
          THEN \E k \in OutputsOf(i) : IsOriginalWithNote(resp.entries[k])
          ELSE \E k \in OutputsOf(i) : resp.entries[k].kind /= "original"

\* C2: imagesToPdf adds exactly one page per image, whichever steps fail:
\* once k - 1 images are done the document has k - 1 pages, and no image
\* makes the call throw.
C2_ExactlyOnePagePerImage ==
  /\ itp.pc \in {"conv", "waitConv", "save"} => Len(itp.pages) = itp.k - 1
  /\ ret.kind /= "addPage failed"

\* C3: when compression is asked for a document and its rasterisation fails
\* at some page (also after earlier pages succeeded), the outcome of that
\* file is the original document with a note, never a rebuilt document.
C3_FailedRasterGivesOriginal ==
  \A k \in 1..Len(h.outputs) :
    (TargetFormat(req.target) = "pdf" /\ h.outputs[k].src \in hist.rast)
    => IsOriginalWithNote(h.outputs[k])

\* C4: once the request has completed, no temporary file is left: not an
\* upload, not a temporary input copy, not a downloaded result.
C4_NoTemporaryFileLeft == h.pc = "done" => disk = {}

\* C5: a remote job whose downloaded files all have the input's extension
\* does not return them as a successful conversion.
C5_SameExtensionIsFatal ==
  cc.pc = "returned" => ~AllSameAsInput(cc.paths, cc.filePath.ext)

\* C6: the polling ends with the timeout error exactly when the attempt cap
\* was used up with no poll reporting a terminal status, and with the
\* failure error, carrying the reported status, exactly when a poll reported
\* failed or error; the two errors differ.
C6_TimeoutAndFailureDistinct ==
  /\ JobTimeoutError /= JobFailedError
  /\ (cc.pc = "thrown" /\ ret.kind = JobTimeoutError)
       => (cc.polls = maxPolls /\ cc.sawTerm = "none")
  /\ (cc.pc = "thrown" /\ ret.kind = JobFailedError)
       => (cc.sawTerm = "failed" /\ ret.info = cc.status /\ cc.status \in {"failed", "error"})
  /\ (cc.pc \in {"thrown", "returned"} /\ cc.polls = maxPolls /\ cc.sawTerm = "none")
       => (cc.pc = "thrown" /\ ret.kind = JobTimeoutError)
  /\ cc.sawTerm = "failed" => (cc.pc = "thrown" /\ ret.kind = JobFailedError)

C6_Witness ==
  /\ cc.pc = "thrown"
  /\ ret.kind = JobTimeoutError
  /\ cc.polls = maxPolls
  /\ cc.status = "null"

C8_ArchiveNamesDistinct ==
  resp.kind = "zip" =>
    \A i, j \in 1..Len(resp.entries) : i /= j => resp.entries[i].name /= resp.entries[j].name

\* C9: a request with no files is answered with status 400 and a message,
\* has no output, and starts nothing: no codec call, no remote request, no
\* temporary file.
C9_ZeroFilesRejected ==
  Len(req.files) = 0 =>
    /\ h.pc \in {"start", "done", "off"}
    /\ h.pc = "done" =>
         (resp.status = 400 /\ resp.error = "No files uploaded" /\ resp.entries = <<>>)
    /\ h.outputs = <<>>
    /\ h.pc /= "off" =>
         (/\ ~hist.codec /\ ~hist.net /\ ~hist.tmpw /\ hist.jobs = {} /\ disk = {}
          /\ itp = IdleItp /\ cib = IdleCib /\ p2i = IdleP2i /\ cc = IdleCc)

C9_Witness == Len(req.files) = 0 /\ h.pc = "done" /\ resp.status = 400

\* C10: a request with at least one file is answered with a success status,
\* whatever fails.
C10_SuccessUnlessNoFiles == (h.pc = "done" /\ Len(req.files) >= 1) => resp.status = 200

\* An integer written out: an optional minus sign, then digits and nothing else.
IsIntegerText(s) ==
  LET d == IF s /= <<>> /\ Head(s) = "-" THEN Tail(s) ELSE s
  IN d /= <<>> /\ \A i \in 1..Len(d) : IsDigit(d[i])

RECURSIVE DecimalValue(_)
DecimalValue(d) ==
  IF d = <<>> THEN 0 ELSE 10 * DecimalValue(SubSeq(d, 1, Len(d) - 1)) + DigitValue(d[Len(d)])

IntegerValue(s) == IF Head(s) = "-" THEN 0 - DecimalValue(Tail(s)) ELSE DecimalValue(s)

Nearest(n) == IF n < 10 THEN 10 ELSE IF n > 95 THEN 95 ELSE n

\* The longest beginning of s that is an integer written out, <<>> if none.
IntegerPrefix(s) ==
  LET ks == {k \in 1..Len(s) : IsIntegerText(SubSeq(s, 1, k))}
  IN IF ks = {} THEN <<>> ELSE SubSeq(s, 1, CHOOSE k \in ks : \A j \in ks : j <= k)

IsImageFile(f) == isImageMime(InMime(f)) \/ isHeicByName(f, InMime(f))

\* C12: when every file of the request is an image and the target is pdf,
\* the outputs are one document for the whole batch, with one page per file
\* in the order of the files.
C12_ImagesCombinedIntoOneDocument ==
  (/\ h.pc = "respond"
   /\ TargetFormat(req.target) = "pdf"
   /\ \A i \in 1..Len(req.files) : IsImageFile(req.files[i]))
  => /\ Len(h.outputs) = 1
     /\ Len(h.outputs[1].pages) = Len(req.files)
     /\ \A i \in 1..Len(h.outputs[1].pages) : h.outputs[1].pages[i].src = i

\* C13: with the remote credential configured, the local codec is never
\* given the bytes of a file that is HEIC/HEIF by its name or by its
\* declared content type, whichever way the file reaches conversion.
C13_HeicNeverGivenToLocalCodec ==
  cfg.key =>
    \A i \in hist.local : ~isHeicByName(req.files[i], req.files[i].mime)

\* File i is an image that is converted to a raster format and is not forced
\* to the remote path.
RasterRoute(i) ==
  /\ TargetFormat(req.target) /= "pdf"
  /\ IsImageFile(req.files[i])
  /\ ~ForcedRemote(req.files[i])

\* C14: for an image not forced to the remote path and a raster target: the
\* remote path is taken only when the local codec is unavailable or has
\* failed; it is taken when the local codec failed and the credential is
\* configured; and when the local codec failed and there is no credential
\* the file's output is its original bytes with a note, and the handler goes
\* on with the batch.
C14_LocalThenRemoteThenOriginal ==
  \A i \in 1..Len(req.files) :
    RasterRoute(i) =>
      /\ i \in hist.remote => (~cfg.sharp \/ i \in hist.lfail)
      /\ (i \in hist.lfail /\ cfg.key) => i \in hist.remote
      /\ (i \in hist.lfail /\ ~cfg.key) =>
           /\ ~(h.pc = "catch" /\ h.i = i)
           /\ (h.pc \in {"loop", "respond", "done"} /\ h.i > i) =>
                \E k \in 1..Len(h.outputs) :
                  /\ h.outputs[k].src = i
                  /\ IsOriginalWithNote(h.outputs[k])
                  /\ \A j \in 1..Len(h.outputs) : h.outputs[j].src = i => j = k

C14_Witness ==
  /\ Len(req.files) = 2
  /\ RasterRoute(1)
  /\ 1 \in hist.lfail
  /\ ~cfg.key
  /\ h.pc = "done"
  /\ resp.status = 200
  /\ Len(resp.entries) = 2

\* C15: a temporary input copy is on disk only while the helper that wrote
\* it is waiting for the remote client: once the helper has returned or
\* thrown, its copy is gone.
C15_TmpInDeletedOnEveryExit ==
  \A t \in disk :
    t.kind = "tmpIn" =>
      \/ (cib.pc \in {"waitForced", "waitFallback"} /\ t = cib.tmpIn)
      \/ (p2i.pc = "waitCc" /\ t = p2i.tmpIn)

C15_Witness ==
  /\ hist.tmpw
  /\ cib.pc = "idle"
  /\ p2i.pc = "idle"
  /\ ret.to \in {"h", "itp"}
  /\ ~ret.ok
  /\ ret.kind = "CloudConvert download failed"
  /\ \A t \in disk : t.kind /= "tmpIn"

\* The errors raised for the missing credential (lines 97, 292 and 346).
NotConfiguredErrors ==
  {"CLOUDCONVERT_API_KEY not configured",
   "No local sharp and CLOUDCONVERT_API_KEY not configured",
   "Server cannot rasterize PDF locally and CLOUDCONVERT_API_KEY not configured"}

C17_NoteHeaderOnDegradedSingleOutput ==
  (h.pc = "done" /\ resp.kind = "file") =>
    /\ resp.status = 200
    /\ resp.entries = h.outputs
    /\ Len(resp.entries) = 1
    /\ resp.entries[1].note /= "" => resp.note = resp.entries[1].note
    /\ resp.entries[1].note = "" => resp.note = ""
    /\ resp.entries[1].src \in hist.failed =>
         (IsOriginalWithNote(resp.entries[1]) /\ resp.note /= "")

C17_Witness ==
  /\ h.pc = "done"
  /\ resp.kind = "file"
  /\ resp.status = 200
  /\ IsOriginalWithNote(resp.entries[1])
  /\ resp.note = resp.entries[1].note
  /\ 1 \in hist.failed

\* The phases of a remote job, in the order of the code.
PhaseRank(pc) ==
  CASE pc = "idle" -> 0
    [] pc = "create" -> 1
    [] pc = "upload" -> 2
    [] pc \in {"poll", "afterPoll"} -> 3
    [] pc \in {"download", "sanity"} -> 4
    [] OTHER -> 5

\* How a job can end in error: failed, timed out, or another fatal error.
JobErrors ==
  {JobFailedError, JobTimeoutError, "CLOUDCONVERT_API_KEY not configured",
   "CloudConvert job creation failed", "CloudConvert: failed to create job",
   "CloudConvert: upload details missing", "CloudConvert file upload failed",
   "CloudConvert: no export files found", "CloudConvert download failed"}

\* C18: a remote job goes through create, upload, poll, download in this
\* order and never back: the upload starts only from a created job, the
\* polling only from the upload, the download only after a poll reported
\* finished; and a job that has ended has ended in exactly one way, success
\* or one error, and stays so.
C18_JobPhasesInOrder ==
  /\ [](/\ cc.pc \in {"upload", "poll", "afterPoll", "download", "sanity", "returned"} => cc.jobId /= 0
        /\ cc.pc \in {"create", "upload"} => cc.polls = 0
        /\ cc.pc \in {"download", "sanity", "returned"} =>
             (cc.sawTerm = "finished" /\ cc.status = "finished")
        /\ Len(cc.paths) > 0 => cc.sawTerm = "finished"
        /\ cc.pc = "returned" => (ret.to = cc.caller /\ ret.ok /\ ret.paths = cc.paths)
        /\ cc.pc = "thrown" => (ret.to = cc.caller /\ ~ret.ok /\ ret.kind \in JobErrors))
  /\ [][/\ PhaseRank(cc'.pc) >= PhaseRank(cc.pc)
        /\ PhaseRank(cc'.pc) > PhaseRank(cc.pc) =>
             \/ PhaseRank(cc'.pc) = PhaseRank(cc.pc) + 1
             \/ cc'.pc = "thrown"
        /\ cc.pc \in {"returned", "thrown"} => (cc' = cc /\ ret' = ret)]_vars

C18_Witness ==
  /\ cc.pc = "returned"
  /\ cc.polls >= 2
  /\ Len(cc.paths) = 2
  /\ ret.ok

\* C19: a job is polled at most 90 times; a poll that fails on the network
\* uses up one attempt and does not end the job; and once a poll has
\* reported finished, with no failed or error status before it, the job goes
\* on as finished: it ends neither with the timeout error nor with the
\* failure error, however many polls came before.
C19_PollCapAndSwallowedPollErrors ==
  /\ [](/\ cc.polls <= 90
        /\ cc.sawTerm = "finished" =>
             /\ cc.status = "finished"
             /\ cc.pc \in {"afterPoll", "download", "sanity", "returned", "thrown"}
             /\ cc.pc = "thrown" => ret.kind \notin {JobTimeoutError, JobFailedError})
  /\ [][(cc.pc = "poll" /\ cc'.polls = cc.polls + 1 /\ cc'.status = "null") =>
          /\ cc'.pc = IF cc'.polls < 90 THEN "poll" ELSE "afterPoll"
          /\ cc'.sawTerm = cc.sawTerm
          /\ ret' = ret]_vars

C19_Witness ==
  /\ cc.polls = 90
  /\ cc.slow
  /\ cc.sawTerm = "finished"
  /\ cc.pc = "returned"
  /\ ret.ok

\* C20: a job uploads its input at most once; a job created without upload
\* details ends in error with no upload made; a job whose upload failed ends
\* in error at once, with no second upload, no poll and no download.
C20_UploadAtMostOnce ==
  /\ cc.uploads <= 1
  /\ cc.pc \in {"idle", "create", "upload"} => cc.uploads = 0
  /\ cc.pc \in {"poll", "afterPoll", "download", "sanity", "returned"} => cc.uploads = 1
  /\ (cc.pc = "thrown" /\ ret.kind = "CloudConvert: upload details missing") =>
       (cc.uploads = 0 /\ cc.polls = 0 /\ cc.paths = <<>> /\ ~ret.ok)
  /\ (cc.pc = "thrown" /\ ret.kind = "CloudConvert file upload failed") =>
       (cc.uploads = 1 /\ cc.polls = 0 /\ cc.paths = <<>> /\ ~ret.ok)
  /\ (cc.uploads = 1 /\ cc.polls = 0 /\ cc.pc \notin {"poll", "afterPoll"}) =>
       (cc.pc = "thrown" /\ ret.kind = "CloudConvert file upload failed")

C20_Witness ==
  /\ cc.pc = "thrown"
  /\ ret.kind = "CloudConvert file upload failed"
  /\ cc.uploads = 1
  /\ cc.polls = 0

\* C21: when every network call returns or fails, every call of
\* cloudConvertFallbackConvert ends, by returning or by throwing; and a job
\* whose polls have used up the attempt cap without a terminal status ends
\* with the timeout error.
C21_JobTerminates ==
  /\ <>(cc.pc \in {"returned", "thrown"})
  /\ (cc.polls = maxPolls /\ cc.sawTerm = "none")
       ~> (cc.pc = "thrown" /\ ret.kind = JobTimeoutError)

C21_Witness ==
  /\ cc.pc = "thrown"
  /\ ret.kind = JobTimeoutError
  /\ cc.polls = maxPolls
  /\ cc.status = "processing"
  /\ cc.sawTerm = "none"

\* C22: the X-CloudConvert-Jobs header of a response lists every remote job
\* created during the request.
C22_EveryJobInHeader ==
  h.pc = "done" => hist.jobs \subseteq resp.jobsHeader

\* An output that is what a failed conversion left: a downloaded file the
\* service did not convert, a document with a blank or placeholder page, or
\* the pages of a rasterisation that stopped early.
LeftByFailure(o) ==
  \/ /\ o.kind = "converted"
     /\ o.buf.k = "remote"
     /\ ToLowerCase(o.buf.fmt) = ToLowerCase(req.files[o.src].ext)
  \/ \E p \in 1..Len(o.pages) : o.pages[p].via \in {"blank", "note"}
  \/ o.kind \in {"compressed", "page"} /\ o.src \in hist.rast

\* C23: an output with a note holds the bytes of its input file, unchanged;
\* an output without a note is not what a failed conversion left.
C23_DegradedIsOriginalElseArtifact ==
  \A k \in 1..Len(h.outputs) :
    LET o == h.outputs[k]
    IN IF o.note /= ""
       THEN o.src \in 1..Len(req.files) /\ o.buf = InputBuffer(o.src)
       ELSE ~LeftByFailure(o)

\* C24: the effective max dimension is a positive integer: the supplied
\* value when that is a positive integer, the configured default when the
\* value is absent, zero, negative or not an integer.
C24_MaxDimPositiveOrDefault ==
  (h.pc = "parsed" /\ ret.to = "handler") =>
    /\ ret.value > 0
    /\ IF /\ req.maxDim.t = "string"
          /\ IsIntegerText(req.maxDim.s)
          /\ IntegerValue(req.maxDim.s) > 0
       THEN ret.value = IntegerValue(req.maxDim.s)
       ELSE ret.value = MAX_DIMENSION

\* C25: in the per-file branch every input file already handled has at least
\* one output in the list, so the list is not empty when the packaging step
\* is reached and the single-output path has an output to send.
C25_EveryFileContributes ==
  /\ (PerFileBranch /\ h.pc \in {"loop", "waitSingle", "waitConv", "waitRaster",
                                 "waitRebuilt", "waitPages", "respond"})
       => \A i \in 1..(h.i - 1) : \E k \in 1..Len(h.outputs) : h.outputs[k].src = i
  /\ (PerFileBranch /\ h.pc = "respond") => h.i = Len(req.files) + 1
  /\ (h.pc = "respond" /\ Len(req.files) >= 1) => Len(h.outputs) >= 1
  /\ h.err /= "TypeError:"
  /\ (h.pc = "done" /\ resp.kind = "file") => Len(resp.entries) = 1

C25_Witness ==
  /\ PerFileBranch
  /\ h.pc = "respond"
  /\ Len(req.files) = 2
  /\ \E k \in 1..Len(h.outputs) : h.outputs[k].src = 1 /\ h.outputs[k].kind = "original"
  /\ \E k \in 1..Len(h.outputs) : h.outputs[k].src = 2 /\ h.outputs[k].kind = "page"

\* The position of output k among the outputs of its own input file.
RankInFile(outs, k) == Cardinality({m \in 1..k : outs[m].src = outs[k].src})

\* The outputs are in input-file order; the page images of one document are
\* in increasing page order and named by their 1-based page index. The page
\* of a remotely produced image is its position in the list of exported
\* files (lines 182-186, 352).
OrderedByFileAndPage(outs) ==
  /\ \A k, l \in 1..Len(outs) : k < l => outs[k].src <= outs[l].src
  /\ \A k \in 1..Len(outs) :
       outs[k].kind = "page" =>
         LET f == req.files[outs[k].src]
             ext == IF TargetFormat(req.target) = "png" THEN "png" ELSE "jpg"
             n == RankInFile(outs, k)
         IN /\ outs[k].buf.pg = n
            /\ outs[k].name = f.base \o "_page" \o ToString(n) \o "." \o ext

\* C27: the outputs of /api/convert are ordered by input file and, within a
\* file, by page: every output of file i precedes every output of file j for
\* i < j, in the list and in the archive, and the page images of one PDF are
\* in increasing page order with names suffixed by their 1-based page index.
C27_OutputsInFileAndPageOrder ==
  /\ OrderedByFileAndPage(h.outputs)
  /\ (h.pc = "done" /\ resp.status = 200) =>
       /\ resp.entries = h.outputs
       /\ OrderedByFileAndPage(resp.entries)

C27_Witness ==
  /\ h.pc = "done"
  /\ resp.kind = "zip"
  /\ Len(req.files) = 2
  /\ Len(resp.entries) = 3
  /\ resp.entries[1].kind = "page"
  /\ resp.entries[2].kind = "page"
  /\ resp.entries[2].name = "c_page2.png"
  /\ resp.entries[3].src = 2

\* C26: two concurrent conversions never use the same temporary file path:
\* no temporary input copy or downloaded result of one is overwritten, read
\* or deleted by the other, also for two HEIC inputs whose copies are
\* created in the same clock millisecond.
C26_NoSharedTmpPath ==
  /\ \A c, d \in Conversions : c /= d => Held(c) \cap Held(d) = {}
  /\ hist.overwritten = {}
  /\ hist.read = {}
  /\ hist.deleted = {}
  /\ hist.missing = {}

====
